---- MODULE Spec2Model ----
(***************************************************************************)
(* Entity filters of plugins/catalog-react/src/filters.ts.                 *)
(*                                                                         *)
(* A JavaScript string is a sequence of one-character strings, so that     *)
(* splitting, case mapping, substring search and reference parsing are     *)
(* computed character by character.  A JavaScript value is a record        *)
(* [t, v] whose tag t is "undefined", "string", "boolean", "number",       *)
(* "array" or "object".  The outcome of a call is a record [status, value] *)
(* whose status is "returned" or "threw".                                  *)
(***************************************************************************)
EXTENDS Integers, Sequences, FiniteSets, TLC

VARIABLES
    filter,     \* the filter under evaluation, NoFilter before the first construction
    other,      \* a second filter: the one rebuilt from filter's query value, or
                \* the one active beside filter
    arg,        \* the constructor call that builds filter: the class and the arguments
    subject,    \* the entity handed to filterEntity
    op,         \* the last operation
    result      \* its outcome

vars == <<filter, other, arg, subject, op, result>>

-----------------------------------------------------------------------------
(* Bounds of the explored inputs.                                          *)

\* longest sequence handed to a constructor taking a sequence of strings
MaxValues == 2
\* longest tag list of an entity
MaxTags == 3
\* longest relation list of an entity
MaxRelations == 2
\* longest status.items list of an entity
MaxItems == 1

-----------------------------------------------------------------------------
(* JavaScript values and outcomes.                                         *)

Undefined == [t |-> "undefined", v |-> <<>>]
Str(s) == [t |-> "string", v |-> s]
Bool(b) == [t |-> "boolean", v |-> b]
Arr(xs) == [t |-> "array", v |-> xs]
Obj(o) == [t |-> "object", v |-> o]
Num(n) == [t |-> "number", v |-> n]

Return(x) == [status |-> "returned", value |-> x]
Throw(e) == [status |-> "threw", value |-> e]

\* x.f : reading a property of undefined raises a TypeError
Member(x, f) ==
    IF x.status = "threw" THEN x
    ELSE IF x.value.t = "undefined" THEN Throw("TypeError")
    ELSE IF f \in DOMAIN x.value.v THEN Return(x.value.v[f])
    ELSE Return(Undefined)

\* x?.f : reading a property of undefined yields undefined
OptMember(x, f) ==
    IF x.status = "threw" THEN x
    ELSE IF x.value.t = "undefined" THEN Return(Undefined)
    ELSE IF f \in DOMAIN x.value.v THEN Return(x.value.v[f])
    ELSE Return(Undefined)

\* x ?? d
Coalesce(x, d) ==
    IF x.status = "threw" THEN x
    ELSE IF x.value.t = "undefined" THEN Return(d)
    ELSE x

\* x.length and x?.length of an array
Length(x) ==
    IF x.status = "threw" THEN x
    ELSE IF x.value.t = "undefined" THEN Throw("TypeError")
    ELSE Return(Num(Len(x.value.v)))

OptLength(x) ==
    IF x.status = "threw" THEN x
    ELSE IF x.value.t = "undefined" THEN Return(Undefined)
    ELSE Return(Num(Len(x.value.v)))

\* x > n, where an undefined x converts to NaN and compares false
GreaterThan(x, n) ==
    IF x.status = "threw" THEN x
    ELSE IF x.value.t = "undefined" THEN Return(FALSE)
    ELSE Return(x.value.v > n)

\* xs.every(cb) and xs.some(cb), given the outcomes of cb on the elements of xs in
\* order: the callback runs until it decides the answer or throws
every(outs) ==
    IF \E i \in 1..Len(outs) : outs[i].status = "threw" \/ ~outs[i].value
    THEN LET i == CHOOSE k \in 1..Len(outs) :
                      /\ outs[k].status = "threw" \/ ~outs[k].value
                      /\ \A j \in 1..(k - 1) :
                             outs[j].status = "returned" /\ outs[j].value
         IN IF outs[i].status = "threw" THEN outs[i] ELSE Return(FALSE)
    ELSE Return(TRUE)

some(outs) ==
    IF \E i \in 1..Len(outs) : outs[i].status = "threw" \/ outs[i].value
    THEN LET i == CHOOSE k \in 1..Len(outs) :
                      /\ outs[k].status = "threw" \/ outs[k].value
                      /\ \A j \in 1..(k - 1) :
                             outs[j].status = "returned" /\ ~outs[j].value
         IN IF outs[i].status = "threw" THEN outs[i] ELSE Return(TRUE)
    ELSE Return(FALSE)

-----------------------------------------------------------------------------
(* Strings.                                                                *)

LowerChars == <<"a", "b", "c", "d", "e", "f", "g", "h", "i", "j", "k", "l", "m",
                "n", "o", "p", "q", "r", "s", "t", "u", "v", "w", "x", "y", "z">>
UpperChars == <<"A", "B", "C", "D", "E", "F", "G", "H", "I", "J", "K", "L", "M",
                "N", "O", "P", "Q", "R", "S", "T", "U", "V", "W", "X", "Y", "Z">>
DigitChars == <<"0", "1", "2", "3", "4", "5", "6", "7", "8", "9">>

Range(s) == {s[i] : i \in 1..Len(s)}

\* the characters matched by the regular expression \s that the inputs use
Whitespace == {" ", "\t", "\n"}

UpperChar(c) ==
    IF \E i \in 1..26 : LowerChars[i] = c
    THEN UpperChars[CHOOSE i \in 1..26 : LowerChars[i] = c]
    ELSE c

LowerChar(c) ==
    IF \E i \in 1..26 : UpperChars[i] = c
    THEN LowerChars[CHOOSE i \in 1..26 : UpperChars[i] = c]
    ELSE c

toLocaleUpperCase(s) == [i \in 1..Len(s) |-> UpperChar(s[i])]

toLocaleLowerCase(s) == [i \in 1..Len(s) |-> LowerChar(s[i])]

\* m.includes(w)
includes(m, w) ==
    \E i \in 0..(Len(m) - Len(w)) : SubSeq(m, i + 1, i + Len(w)) = w

\* s.split(/\s/) : every whitespace character separates two pieces
RECURSIVE split(_)
split(s) ==
    IF \A i \in 1..Len(s) : s[i] \notin Whitespace
    THEN <<s>>
    ELSE LET i == CHOOSE k \in 1..Len(s) :
                      /\ s[k] \in Whitespace
                      /\ \A j \in 1..(k - 1) : s[j] \notin Whitespace
         IN <<SubSeq(s, 1, i - 1)>> \o split(SubSeq(s, i + 1, Len(s)))

\* String(b) and b.toString() of a boolean
BooleanToString(b) ==
    IF b THEN <<"t", "r", "u", "e">> ELSE <<"f", "a", "l", "s", "e">>

-----------------------------------------------------------------------------
(* Entity references (@backstage/catalog-model) and relation lookup        *)
(* (./utils).  Neither is part of filters.ts; both follow sections 3, 4.1  *)
(* and 4.2 of the specification.                                           *)

RELATION_OWNED_BY == <<"o", "w", "n", "e", "d", "B", "y">>

DEFAULT_NAMESPACE == <<"d", "e", "f", "a", "u", "l", "t">>

\* the characters a kind, a namespace or a name is made of
RefChars == Range(LowerChars) \cup Range(UpperChars) \cup Range(DigitChars)
                \cup {"-", "_", "."}

\* index of the first occurrence of character c in s, 0 when there is none
IndexOf(s, c) ==
    IF c \in Range(s)
    THEN CHOOSE i \in 1..Len(s) : s[i] = c /\ \A j \in 1..(i - 1) : s[j] # c
    ELSE 0

\* name, namespace/name, kind:name or kind:namespace/name; a missing kind is
\* the default kind (<<>> when there is none), a missing namespace the default
\* namespace; an empty part or a character outside RefChars is a parse error
parseEntityRef(ref, defaultKind) ==
    LET colonI == IndexOf(ref, ":")
        afterKind == SubSeq(ref, colonI + 1, Len(ref))
        slashI == IndexOf(afterKind, "/")
        kind == IF colonI = 0 THEN defaultKind ELSE SubSeq(ref, 1, colonI - 1)
        namespace == IF slashI = 0 THEN DEFAULT_NAMESPACE
                     ELSE SubSeq(afterKind, 1, slashI - 1)
        name == SubSeq(afterKind, slashI + 1, Len(afterKind))
        wellFormed(part) == part # <<>> /\ Range(part) \subseteq RefChars
    IN IF wellFormed(kind) /\ wellFormed(namespace) /\ wellFormed(name)
       THEN Return([kind |-> kind, namespace |-> namespace, name |-> name])
       ELSE Throw("ParseError")

\* the canonical string kind:namespace/name, in lower case
stringifyEntityRef(ref) ==
    toLocaleLowerCase(ref.kind) \o <<":">> \o toLocaleLowerCase(ref.namespace)
        \o <<"/">> \o toLocaleLowerCase(ref.name)

\* the targets of the relations of the given type, in order; an absent relation
\* list is empty, and a target with no canonical form contributes no reference
getEntityRelations(entity, relationType) ==
    LET relations == entity.v.relations
        list == IF relations.t = "undefined" THEN <<>> ELSE relations.v
        ofType == SelectSeq(list, LAMBDA r :
                      /\ r.type = relationType
                      /\ parseEntityRef(r.targetRef, <<>>).status = "returned")
    IN [i \in 1..Len(ofType) |-> parseEntityRef(ofType[i].targetRef, <<>>).value]

-----------------------------------------------------------------------------
(* The filter classes.  A filter is a record of its variant and its        *)
(* readonly fields; a string array holds its strings untagged.             *)

\* x === y of two values that are undefined or strings
StrictEquals(x, y) ==
    IF x.status = "threw" THEN x
    ELSE Return(x.value.t = y.t /\ (x.value.t = "undefined" \/ x.value.v = y.v))

EntityKindFilter(value) == Return([variant |-> "Kind", value |-> value])

EntityKindFilter_getCatalogFilters(self) == Obj("kind" :> self.value)

\* as toQueryValue, with the kind in lower case
EntityKindFilter_toQueryValueLowered(self) ==
    Str(toLocaleLowerCase(self.value.v))

EntityKindFilter_toQueryValue(self) == self.value

EntityTypeFilter(value) == Return([variant |-> "Type", value |-> value])

getTypes(self) ==
    IF self.value.t = "array" THEN self.value ELSE Arr(<<self.value.v>>)

EntityTypeFilter_getCatalogFilters(self) == Obj("spec.type" :> getTypes(self))

EntityTypeFilter_toQueryValue(self) == getTypes(self)

EntityTagFilter(values) == Return([variant |-> "Tag", values |-> values])

\* as filterEntity, with values.some in place of values.every
EntityTagFilter_filterEntitySome(self, entity) ==
    LET tags == Coalesce(Member(Member(Return(entity), "metadata"), "tags"),
                         Arr(<<>>))
    IN some([i \in 1..Len(self.values.v) |->
                IF tags.status = "threw" THEN tags
                ELSE Return(self.values.v[i] \in Range(tags.value.v))])

EntityTagFilter_filterEntity(self, entity) ==
    LET tags == Coalesce(Member(Member(Return(entity), "metadata"), "tags"),
                         Arr(<<>>))
    IN every([i \in 1..Len(self.values.v) |->
                 IF tags.status = "threw" THEN tags
                 ELSE Return(self.values.v[i] \in Range(tags.value.v))])

EntityTagFilter_getCatalogFilters(self) == Obj("metadata.tags" :> self.values)

EntityTagFilter_toQueryValue(self) == self.values

EntityTextFilter(value) == Return([variant |-> "Text", value |-> value])

\* value.flat() of an array of strings, string arrays and undefined
RECURSIVE flat(_)
flat(value) ==
    IF value = <<>> THEN <<>>
    ELSE LET m == Head(value)
         IN (IF m.t = "array" THEN [i \in 1..Len(m.v) |-> Str(m.v[i])] ELSE <<m>>)
                \o flat(Tail(value))

toUpperArray(value) ==
    LET truthy == SelectSeq(flat(value), LAMBDA m : m.t = "string" /\ m.v # <<>>)
    IN [i \in 1..Len(truthy) |-> toLocaleUpperCase(truthy[i].v)]

\* as filterEntity, with a tag matching a word it includes
EntityTextFilter_filterEntityPartialTags(self, entity) ==
    LET metadata == Member(Return(entity), "metadata")
        pieces == split(self.value.v)
        words == toUpperArray([i \in 1..Len(pieces) |-> Str(pieces[i])])
        partialMatch == toUpperArray(<<Member(metadata, "tags").value,
                                       Member(metadata, "name").value,
                                       Member(metadata, "title").value>>)
    IN IF \E k \in 1..Len(words) :
              \A i \in 1..Len(partialMatch) : ~includes(partialMatch[i], words[k])
       THEN Return(FALSE)
       ELSE Return(TRUE)

EntityTextFilter_filterEntity(self, entity) ==
    LET metadata == Member(Return(entity), "metadata")
        pieces == split(self.value.v)
        words == toUpperArray([i \in 1..Len(pieces) |-> Str(pieces[i])])
        exactMatch == toUpperArray(<<Member(metadata, "tags").value>>)
        partialMatch == toUpperArray(<<Member(metadata, "name").value,
                                       Member(metadata, "title").value>>)
    IN IF \E k \in 1..Len(words) :
              /\ \A i \in 1..Len(exactMatch) : exactMatch[i] # words[k]
              /\ \A i \in 1..Len(partialMatch) : ~includes(partialMatch[i], words[k])
       THEN Return(FALSE)
       ELSE Return(TRUE)

Group == <<"G", "r", "o", "u", "p">>

\* as addRef, with a reference that fails to parse pushed as it was given
EntityOwnerFilter_addRefRetaining(fullRefs, ref) ==
    LET parsed == parseEntityRef(ref, Group)
    IN IF parsed.status = "threw" THEN Return(Append(fullRefs, ref))
       ELSE Return(Append(fullRefs, stringifyEntityRef(parsed.value)))

\* the callback of values.reduce: the reference is pushed in canonical form, and
\* a reference that fails to parse is caught and leaves fullRefs as it is
EntityOwnerFilter_addRef(fullRefs, ref) ==
    LET parsed == parseEntityRef(ref, Group)
    IN IF parsed.status = "threw" THEN Return(fullRefs)
       ELSE Return(Append(fullRefs, stringifyEntityRef(parsed.value)))

RECURSIVE reduce(_, _)
reduce(values, fullRefs) ==
    IF values = <<>> THEN Return(fullRefs)
    ELSE LET step == EntityOwnerFilter_addRef(fullRefs, Head(values))
         IN IF step.status = "threw" THEN step
            ELSE reduce(Tail(values), step.value)

EntityOwnerFilter(values) ==
    LET fullRefs == reduce(values.v, <<>>)
    IN IF fullRefs.status = "threw" THEN fullRefs
       ELSE Return([variant |-> "Owner", values |-> Arr(fullRefs.value)])

EntityOwnerFilter_getCatalogFilters(self) ==
    Obj("relations.ownedBy" :> self.values)

\* as filterEntity, with values.every in place of values.some
EntityOwnerFilter_filterEntityEvery(self, entity) ==
    LET owners == getEntityRelations(entity, RELATION_OWNED_BY)
    IN every([i \in 1..Len(self.values.v) |->
                 some([j \in 1..Len(owners) |->
                     Return(stringifyEntityRef(owners[j]) = self.values.v[i])])])

EntityOwnerFilter_filterEntity(self, entity) ==
    LET owners == getEntityRelations(entity, RELATION_OWNED_BY)
    IN some([i \in 1..Len(self.values.v) |->
                some([j \in 1..Len(owners) |->
                    Return(stringifyEntityRef(owners[j]) = self.values.v[i])])])

EntityOwnerFilter_toQueryValue(self) == self.values

EntityLifecycleFilter(values) ==
    Return([variant |-> "Lifecycle", values |-> values])

EntityLifecycleFilter_getCatalogFilters(self) ==
    Obj("spec.lifecycle" :> self.values)

EntityLifecycleFilter_filterEntity(self, entity) ==
    LET lifecycle == OptMember(Member(Return(entity), "spec"), "lifecycle")
    IN some([i \in 1..Len(self.values.v) |->
                StrictEquals(lifecycle, Str(self.values.v[i]))])

EntityLifecycleFilter_toQueryValue(self) == self.values

EntityNamespaceFilter(values) ==
    Return([variant |-> "Namespace", values |-> values])

EntityNamespaceFilter_getCatalogFilters(self) ==
    Obj("spec.lifecycle" :> self.values)

EntityNamespaceFilter_filterEntity(self, entity) ==
    LET namespace == Member(Member(Return(entity), "metadata"), "namespace")
    IN some([i \in 1..Len(self.values.v) |->
                StrictEquals(namespace, Str(self.values.v[i]))])

EntityNamespaceFilter_toQueryValue(self) == self.values

\* the predicates a consumer injects into a UserListFilter, by name
Predicates == {"never", "titled"}

\* the call pred(entity) of an injected predicate
Call(pred, entity) ==
    CASE pred = "never" -> Return(FALSE)
      [] pred = "titled" -> Return(entity.v.metadata.v.title.t # "undefined")

owned == <<"o", "w", "n", "e", "d">>
starred == <<"s", "t", "a", "r", "r", "e", "d">>
all == <<"a", "l", "l">>

UserListFilter(value, isOwnedEntity, isStarredEntity) ==
    Return([variant |-> "UserList", value |-> value,
            isOwnedEntity |-> isOwnedEntity, isStarredEntity |-> isStarredEntity])

\* as filterEntity, with the two predicates exchanged
UserListFilter_filterEntitySwapped(self, entity) ==
    CASE self.value.v = owned -> Call(self.isStarredEntity, entity)
      [] self.value.v = starred -> Call(self.isOwnedEntity, entity)
      [] OTHER -> Return(TRUE)

UserListFilter_filterEntity(self, entity) ==
    CASE self.value.v = owned -> Call(self.isOwnedEntity, entity)
      [] self.value.v = starred -> Call(self.isStarredEntity, entity)
      [] OTHER -> Return(TRUE)

UserListFilter_toQueryValue(self) == self.value

ORPHAN_ANNOTATION == "backstage.io/orphan"

EntityOrphanFilter(value) == Return([variant |-> "Orphan", value |-> value])

EntityOrphanFilter_getCatalogFilters(self) ==
    Obj("metadata.annotations.backstage.io/orphan"
            :> Str(BooleanToString(self.value.v)))

\* as filterEntity, with an absent annotation read as "false"
EntityOrphanFilter_filterEntityDefaulting(self, entity) ==
    LET orphan == Coalesce(OptMember(Member(Member(Return(entity), "metadata"),
                               "annotations"), ORPHAN_ANNOTATION),
                           Str(BooleanToString(FALSE)))
    IN IF orphan.status = "threw" THEN orphan
       ELSE Return(BooleanToString(self.value.v) = orphan.value.v)

EntityOrphanFilter_filterEntity(self, entity) ==
    LET orphan == OptMember(Member(Member(Return(entity), "metadata"),
                      "annotations"), ORPHAN_ANNOTATION)
    IN IF orphan.status = "threw" THEN orphan
       ELSE Return(/\ orphan.value.t # "undefined"
                   /\ BooleanToString(self.value.v) = orphan.value.v)

EntityErrorFilter(value) == Return([variant |-> "Error", value |-> value])

\* as filterEntity, reading status.items.length without optional chaining
EntityErrorFilter_filterEntityUnchained(self, entity) ==
    LET error == GreaterThan(Length(Member(Member(Return(entity), "status"),
                     "items")), 0)
    IN IF error.status = "threw" THEN error
       ELSE Return(self.value.v = error.value)

\* as filterEntity, ignoring the configured boolean
EntityErrorFilter_filterEntityAnyValue(self, entity) ==
    GreaterThan(OptLength(OptMember(OptMember(Return(entity), "status"),
        "items")), 0)

EntityErrorFilter_filterEntity(self, entity) ==
    LET error == GreaterThan(OptLength(OptMember(OptMember(Return(entity),
                     "status"), "items")), 0)
    IN IF error.status = "threw" THEN error
       ELSE Return(self.value.v = error.value)

-----------------------------------------------------------------------------
(* The capabilities of a filter: a method a class does not define is       *)
(* absent, and a caller tests for it before the call.                      *)

WithFilterEntity ==
    {"Tag", "Text", "Owner", "Lifecycle", "Namespace", "UserList", "Orphan",
     "Error"}

WithCatalogFilters ==
    {"Kind", "Type", "Tag", "Owner", "Lifecycle", "Namespace", "Orphan"}

WithQueryValue ==
    {"Kind", "Type", "Tag", "Owner", "Lifecycle", "Namespace", "UserList"}

filterEntity(self, entity) ==
    CASE self.variant = "Tag" -> EntityTagFilter_filterEntity(self, entity)
      [] self.variant = "Text" -> EntityTextFilter_filterEntity(self, entity)
      [] self.variant = "Owner" -> EntityOwnerFilter_filterEntity(self, entity)
      [] self.variant = "Lifecycle" ->
             EntityLifecycleFilter_filterEntity(self, entity)
      [] self.variant = "Namespace" ->
             EntityNamespaceFilter_filterEntity(self, entity)
      [] self.variant = "UserList" -> UserListFilter_filterEntity(self, entity)
      [] self.variant = "Orphan" -> EntityOrphanFilter_filterEntity(self, entity)
      [] self.variant = "Error" -> EntityErrorFilter_filterEntity(self, entity)

getCatalogFilters(self) ==
    CASE self.variant = "Kind" -> EntityKindFilter_getCatalogFilters(self)
      [] self.variant = "Type" -> EntityTypeFilter_getCatalogFilters(self)
      [] self.variant = "Tag" -> EntityTagFilter_getCatalogFilters(self)
      [] self.variant = "Owner" -> EntityOwnerFilter_getCatalogFilters(self)
      [] self.variant = "Lifecycle" ->
             EntityLifecycleFilter_getCatalogFilters(self)
      [] self.variant = "Namespace" ->
             EntityNamespaceFilter_getCatalogFilters(self)
      [] self.variant = "Orphan" -> EntityOrphanFilter_getCatalogFilters(self)

toQueryValue(self) ==
    CASE self.variant = "Kind" -> EntityKindFilter_toQueryValue(self)
      [] self.variant = "Type" -> EntityTypeFilter_toQueryValue(self)
      [] self.variant = "Tag" -> EntityTagFilter_toQueryValue(self)
      [] self.variant = "Owner" -> EntityOwnerFilter_toQueryValue(self)
      [] self.variant = "Lifecycle" -> EntityLifecycleFilter_toQueryValue(self)
      [] self.variant = "Namespace" -> EntityNamespaceFilter_toQueryValue(self)
      [] self.variant = "UserList" -> UserListFilter_toQueryValue(self)

\* the filter of the same class built from a filter's query value; a
\* UserListFilter is given the same two predicates again
rebuild(self) ==
    LET q == toQueryValue(self)
    IN CASE self.variant = "Kind" -> EntityKindFilter(q)
         [] self.variant = "Type" -> EntityTypeFilter(q)
         [] self.variant = "Tag" -> EntityTagFilter(q)
         [] self.variant = "Owner" -> EntityOwnerFilter(q)
         [] self.variant = "Lifecycle" -> EntityLifecycleFilter(q)
         [] self.variant = "Namespace" -> EntityNamespaceFilter(q)
         [] self.variant = "UserList" ->
                UserListFilter(q, self.isOwnedEntity, self.isStarredEntity)

-----------------------------------------------------------------------------
(* The inputs explored.                                                    *)

SeqsUpTo(S, n) == UNION {[1..k -> S] : k \in 0..n}

KindPool == {<<"a", "p", "i">>, <<"G", "r", "o", "u", "p">>}
TypePool == {<<"s", "v", "c">>, <<"l", "i", "b">>}
TagPool == {<<"a">>, <<"B">>, <<"a", "b">>}
LifecyclePool == {<<"p", "r", "o", "d">>, <<"d", "e", "v">>}
NamespacePool == {DEFAULT_NAMESPACE, <<"d", "e", "v">>}
NamePool == {<<"s", "v", "c">>}
TitlePool == {<<"m", "y", "-", "B">>}

\* "", " ", "a", "b", "ab", "c", "a b", "a<tab>B", " ab ", "sv  B"
TextPool ==
    {<<>>, <<" ">>, <<"a">>, <<"b">>, <<"a", "b">>, <<"c">>, <<"a", " ", "b">>,
     <<"a", "\t", "B">>, <<" ", "a", "b", " ">>, <<"s", "v", " ", "\n", "B">>}

\* "TA", "User:d/b", and two references that do not parse: "!x" (a character no
\* reference has) and "g:/ta" (an empty namespace)
RefPool ==
    {<<"T", "A">>,
     <<"U", "s", "e", "r", ":", "d", "/", "b">>,
     <<"!", "x">>,
     <<"g", ":", "/", "t", "a">>}

\* ownedBy group:default/ta, ownedBy User:d/B, ownedBy !x, ownerOf group:default/ta
RelationPool ==
    {[type |-> RELATION_OWNED_BY,
      targetRef |-> <<"g", "r", "o", "u", "p", ":", "d", "e", "f", "a", "u", "l", "t",
                      "/", "t", "a">>],
     [type |-> RELATION_OWNED_BY,
      targetRef |-> <<"U", "s", "e", "r", ":", "d", "/", "B">>],
     [type |-> RELATION_OWNED_BY, targetRef |-> <<"!", "x">>],
     [type |-> <<"o", "w", "n", "e", "r", "O", "f">>,
      targetRef |-> <<"g", "r", "o", "u", "p", ":", "d", "e", "f", "a", "u", "l", "t",
                      "/", "t", "a">>]}

Optional(S) == {Undefined} \cup S

Entity(name, namespace, title, tags, annotations, spec, relations, status) ==
    Obj([metadata |-> Obj([name |-> name, namespace |-> namespace,
                           title |-> title, tags |-> tags,
                           annotations |-> annotations]),
         spec |-> spec, relations |-> relations, status |-> status])

BareEntity ==
    Entity(Str(<<"s", "v", "c">>), Undefined, Undefined, Undefined, Undefined,
           Undefined, Undefined, Undefined)

\* entities differing in name, title and tags
TextEntities ==
    {Entity(Str(name), Undefined, title, tags, Undefined, Undefined, Undefined,
            Undefined) :
        name \in NamePool,
        title \in Optional({Str(t) : t \in TitlePool}),
        tags \in Optional({Arr(ts) : ts \in SeqsUpTo(TagPool, MaxTags)})}

\* entities differing in their relations
RelatedEntities ==
    {Entity(Str(<<"s", "v", "c">>), Undefined, Undefined, Undefined, Undefined,
            Undefined, relations, Undefined) :
        relations \in Optional({Arr(rs) : rs \in SeqsUpTo(RelationPool, MaxRelations)})}

\* entities differing in namespace, spec, annotations and status, and one with
\* a title
OtherEntities ==
    {BareEntity,
     Entity(Str(<<"s", "v", "c">>), Undefined, Str(<<"m", "y", "-", "B">>),
            Undefined, Undefined, Undefined, Undefined, Undefined)}
    \cup
    {Entity(Str(<<"s", "v", "c">>), namespace, Undefined, Undefined, Undefined,
            Undefined, Undefined, Undefined) :
        namespace \in {Str(n) : n \in NamespacePool}}
    \cup
    {Entity(Str(<<"s", "v", "c">>), Undefined, Undefined, Undefined, Undefined,
            spec, Undefined, Undefined) :
        spec \in {Obj(<<>>)} \cup {Obj([lifecycle |-> Str(l)]) : l \in LifecyclePool}}
    \cup
    {Entity(Str(<<"s", "v", "c">>), Undefined, Undefined, Undefined, annotations,
            Undefined, Undefined, Undefined) :
        annotations \in {Obj(<<>>)} \cup
            {Obj(ORPHAN_ANNOTATION :> Str(o)) :
                o \in {BooleanToString(TRUE), BooleanToString(FALSE),
                       <<"T", "R", "U", "E">>}}}
    \cup
    {Entity(Str(<<"s", "v", "c">>), Undefined, Undefined, Undefined, Undefined,
            Undefined, Undefined, status) :
        status \in {Obj(<<>>)} \cup
            {Obj([items |-> Arr([i \in 1..n |-> Str(<<"e">>)])]) : n \in 0..MaxItems}}

Entities == TextEntities \cup RelatedEntities \cup OtherEntities

\* the entities a filter of the class is evaluated on
Subjects(class) ==
    CASE class \in {"Tag", "Text"} -> TextEntities \cup OtherEntities
      [] class = "Owner" -> RelatedEntities \cup OtherEntities
      [] class \in {"Kind", "Type"} -> {BareEntity}
      [] OTHER -> OtherEntities

KindInputs == {Str(s) : s \in KindPool}
TypeInputs == {Str(s) : s \in TypePool}
                  \cup {Arr(ss) : ss \in SeqsUpTo(TypePool, MaxValues)}
TagInputs == {Arr(ss) : ss \in SeqsUpTo(TagPool, MaxValues)}
TextInputs == {Str(s) : s \in TextPool}
OwnerInputs == {Arr(ss) : ss \in SeqsUpTo(RefPool, MaxValues)}
LifecycleInputs == {Arr(ss) : ss \in SeqsUpTo(LifecyclePool, MaxValues)}
NamespaceInputs == {Arr(ss) : ss \in SeqsUpTo(NamespacePool, MaxValues)}
UserListInputs == {Str(owned), Str(starred), Str(all)}
BooleanInputs == {Bool(TRUE), Bool(FALSE)}

\* a constructor call: the class and the arguments
New(class, S) == {[class |-> class, args |-> <<x>>] : x \in S}

Inputs ==
    New("Kind", KindInputs) \cup New("Type", TypeInputs) \cup New("Tag", TagInputs)
        \cup New("Text", TextInputs) \cup New("Owner", OwnerInputs)
        \cup New("Lifecycle", LifecycleInputs)
        \cup New("Namespace", NamespaceInputs)
        \cup {[class |-> "UserList", args |-> <<value, isOwned, isStarred>>] :
                 value \in UserListInputs, isOwned \in Predicates,
                 isStarred \in Predicates}
        \cup New("Orphan", BooleanInputs) \cup New("Error", BooleanInputs)

-----------------------------------------------------------------------------
(* One filter and one entity: the filter is constructed from the chosen    *)
(* arguments, and then its methods are called in any order.                *)

NoFilter == [variant |-> "None"]

Init ==
    /\ filter = NoFilter
    /\ other = NoFilter
    /\ arg \in Inputs
    /\ subject \in Subjects(arg.class)
    /\ op = "none"
    /\ result = Return(Undefined)

\* new C(args): the filter exists once the constructor has returned
Construct(class, out) ==
    /\ filter = NoFilter
    /\ arg.class = class
    /\ filter' = IF out.status = "returned" THEN out.value ELSE filter
    /\ op' = "new"
    /\ result' = IF out.status = "returned" THEN Return(Undefined) ELSE out
    /\ UNCHANGED <<other, arg, subject>>

NewEntityKindFilter == Construct("Kind", EntityKindFilter(arg.args[1]))

NewEntityTypeFilter == Construct("Type", EntityTypeFilter(arg.args[1]))

NewEntityTagFilter == Construct("Tag", EntityTagFilter(arg.args[1]))

NewEntityTextFilter == Construct("Text", EntityTextFilter(arg.args[1]))

NewEntityOwnerFilter == Construct("Owner", EntityOwnerFilter(arg.args[1]))

NewEntityLifecycleFilter ==
    Construct("Lifecycle", EntityLifecycleFilter(arg.args[1]))

NewEntityNamespaceFilter ==
    Construct("Namespace", EntityNamespaceFilter(arg.args[1]))

NewUserListFilter ==
    Construct("UserList", UserListFilter(arg.args[1], arg.args[2], arg.args[3]))

NewEntityOrphanFilter == Construct("Orphan", EntityOrphanFilter(arg.args[1]))

NewEntityErrorFilter == Construct("Error", EntityErrorFilter(arg.args[1]))

FilterEntity ==
    /\ filter.variant \in WithFilterEntity
    /\ result' = filterEntity(filter, subject)
    /\ op' = "filterEntity"
    /\ UNCHANGED <<filter, other, arg, subject>>

GetCatalogFilters ==
    /\ filter.variant \in WithCatalogFilters
    /\ result' = Return(getCatalogFilters(filter))
    /\ op' = "getCatalogFilters"
    /\ UNCHANGED <<filter, other, arg, subject>>

ToQueryValue ==
    /\ filter.variant \in WithQueryValue
    /\ result' = Return(toQueryValue(filter))
    /\ op' = "toQueryValue"
    /\ UNCHANGED <<filter, other, arg, subject>>

\* a second filter is built from the query value of the first
Rebuild ==
    /\ filter.variant \in WithQueryValue
    /\ LET out == rebuild(filter)
       IN /\ other' = IF out.status = "returned" THEN out.value ELSE other
          /\ result' = IF out.status = "returned" THEN Return(Undefined) ELSE out
    /\ op' = "rebuild"
    /\ UNCHANGED <<filter, arg, subject>>

Next ==
    \/ NewEntityKindFilter
    \/ NewEntityTypeFilter
    \/ NewEntityTagFilter
    \/ NewEntityTextFilter
    \/ NewEntityOwnerFilter
    \/ NewEntityLifecycleFilter
    \/ NewEntityNamespaceFilter
    \/ NewUserListFilter
    \/ NewEntityOrphanFilter
    \/ NewEntityErrorFilter
    \/ FilterEntity
    \/ GetCatalogFilters
    \/ ToQueryValue
    \/ Rebuild

Spec == Init /\ [][Next]_vars

-----------------------------------------------------------------------------
(* The filters active together: a consumer activates one filter after      *)
(* another and merges the catalog filters of the active ones.              *)

construct(call) ==
    CASE call.class = "Kind" -> EntityKindFilter(call.args[1])
      [] call.class = "Type" -> EntityTypeFilter(call.args[1])
      [] call.class = "Tag" -> EntityTagFilter(call.args[1])
      [] call.class = "Owner" -> EntityOwnerFilter(call.args[1])
      [] call.class = "Lifecycle" -> EntityLifecycleFilter(call.args[1])
      [] call.class = "Namespace" -> EntityNamespaceFilter(call.args[1])
      [] call.class = "Orphan" -> EntityOrphanFilter(call.args[1])

InitActive ==
    /\ filter = NoFilter
    /\ other = NoFilter
    /\ arg = [class |-> "None", args |-> <<>>]
    /\ subject = BareEntity
    /\ op = "none"
    /\ result = Return(Undefined)

\* a filter is constructed and activated beside the one activated before it
Activate ==
    \E call \in {c \in Inputs : c.class \in WithCatalogFilters} :
        LET out == construct(call)
        IN /\ out.status = "returned"
           /\ filter' = out.value
           /\ other' = filter
           /\ arg' = call
           /\ op' = "getCatalogFilters"
           /\ result' = Return(getCatalogFilters(out.value))
           /\ UNCHANGED subject

\* the active filters are dropped
Deactivate ==
    /\ filter # NoFilter
    /\ filter' = NoFilter
    /\ other' = NoFilter
    /\ arg' = [class |-> "None", args |-> <<>>]
    /\ op' = "none"
    /\ result' = Return(Undefined)
    /\ UNCHANGED subject

NextActive == Activate \/ Deactivate

SpecActive == InitActive /\ [][NextActive]_vars

-----------------------------------------------------------------------------
(* Vocabulary of the properties.                                           *)

Evaluated(variant) ==
    /\ op = "filterEntity"
    /\ filter.variant = variant
    /\ result.status = "returned"

Parses(ref) == parseEntityRef(ref, Group).status = "returned"

Canonical(ref) == stringifyEntityRef(parseEntityRef(ref, Group).value)

\* kind:namespace/name with no upper-case letter
InCanonicalShape(s) ==
    /\ Cardinality({i \in 1..Len(s) : s[i] = ":"}) = 1
    /\ Cardinality({i \in 1..Len(s) : s[i] = "/"}) = 1
    /\ 1 < IndexOf(s, ":")
    /\ IndexOf(s, ":") + 1 < IndexOf(s, "/")
    /\ IndexOf(s, "/") < Len(s)
    /\ Range(s) \subseteq (RefChars \ Range(UpperChars)) \cup {":", "/"}

groupDefaultTa ==
    <<"g", "r", "o", "u", "p", ":", "d", "e", "f", "a", "u", "l", "t", "/", "t", "a">>

SameIgnoringCase(a, b) ==
    /\ Len(a) = Len(b)
    /\ \A k \in 1..Len(a) : LowerChar(a[k]) = LowerChar(b[k])

ContainsIgnoringCase(m, w) ==
    \E off \in 0..(Len(m) - Len(w)) :
        \A k \in 1..Len(w) : LowerChar(m[off + k]) = LowerChar(w[k])

\* the maximal runs of characters of s that are not whitespace
Tokens(s) ==
    {SubSeq(s, i, j) : <<i, j>> \in
        {p \in (1..Len(s)) \X (1..Len(s)) :
            /\ p[1] <= p[2]
            /\ \A k \in p[1]..p[2] : s[k] \notin Whitespace
            /\ p[1] = 1 \/ s[p[1] - 1] \in Whitespace
            /\ p[2] = Len(s) \/ s[p[2] + 1] \in Whitespace}}

TagsOf(entity) ==
    IF entity.v.metadata.v.tags.t = "undefined" THEN {}
    ELSE Range(entity.v.metadata.v.tags.v)

RelationsOf(entity) ==
    IF entity.v.relations.t = "undefined" THEN {}
    ELSE Range(entity.v.relations.v)

HasOrphanAnnotation(entity, text) ==
    /\ entity.v.metadata.v.annotations.t # "undefined"
    /\ ORPHAN_ANNOTATION \in DOMAIN entity.v.metadata.v.annotations.v
    /\ entity.v.metadata.v.annotations.v[ORPHAN_ANNOTATION].v = text

HasStatusItems(entity) ==
    /\ entity.v.status.t # "undefined"
    /\ "items" \in DOMAIN entity.v.status.v
    /\ entity.v.status.v.items.t # "undefined"
    /\ Len(entity.v.status.v.items.v) > 0

-----------------------------------------------------------------------------
(* Properties.                                                             *)

C2_FilterEntityReturnsABoolean ==
    op = "filterEntity" =>
        /\ result.status = "returned"
        /\ result.value \in BOOLEAN

\* an Owner filter with a value has been evaluated on an entity whose ownedBy
\* relation has a target that does not parse
C2_Witness ==
    /\ Evaluated("Owner")
    /\ filter.values.v # <<>>
    /\ \E r \in RelationsOf(subject) :
           /\ r.type = RELATION_OWNED_BY
           /\ parseEntityRef(r.targetRef, <<>>).status = "threw"

C4_OwnerMatchesAnOwnedByTarget ==
    (op = "filterEntity" /\ filter.variant = "Owner") =>
        /\ result.status = "returned"
        /\ result.value =
               (\E r \in RelationsOf(subject) :
                   /\ r.type = RELATION_OWNED_BY
                   /\ parseEntityRef(r.targetRef, <<>>).status = "returned"
                   /\ stringifyEntityRef(parseEntityRef(r.targetRef, <<>>).value)
                          \in Range(filter.values.v))
        /\ filter.values.v = <<>> => ~result.value
        /\ ( /\ <<"T", "A">> \in Range(arg.args[1].v)
             /\ [type |-> RELATION_OWNED_BY, targetRef |-> groupDefaultTa]
                    \in RelationsOf(subject) ) => result.value

\* a filter built from the bare name alone has matched through the second of two
\* relations, the first being of another type
C4_Witness ==
    /\ Evaluated("Owner")
    /\ arg.args[1].v = <<<<"T", "A">>>>
    /\ subject.v.relations.t # "undefined"
    /\ Len(subject.v.relations.v) = 2
    /\ subject.v.relations.v[1].type # RELATION_OWNED_BY
    /\ subject.v.relations.v[2] =
           [type |-> RELATION_OWNED_BY, targetRef |-> groupDefaultTa]
    /\ result.value

\* C5: two active filters of different variants have catalog filters with
\* disjoint key sets.
C5_CatalogFilterKeysAreDisjoint ==
    ( /\ filter.variant \in WithCatalogFilters
      /\ other.variant \in WithCatalogFilters
      /\ filter.variant # other.variant ) =>
        DOMAIN getCatalogFilters(filter).v \cap DOMAIN getCatalogFilters(other).v
            = {}

\* C6: Tag filterEntity is true iff every configured tag is among the entity's
\* tags, an absent tag list being empty.
C6_TagMatchesEveryConfiguredTag ==
    (op = "filterEntity" /\ filter.variant = "Tag") =>
        /\ result.status = "returned"
        /\ result.value = (Range(filter.values.v) \subseteq TagsOf(subject))

\* a filter with two tags has matched an entity with these two and a third
C6_Witness ==
    /\ Evaluated("Tag")
    /\ filter.values.v = << <<"a">>, <<"B">> >>
    /\ subject.v.metadata.v.tags.t # "undefined"
    /\ subject.v.metadata.v.tags.v = << <<"a">>, <<"B">>, <<"a", "b">> >>
    /\ result.value

\* C7: UserList filterEntity is what isOwnedEntity returns for 'owned', what
\* isStarredEntity returns for 'starred', and true for every other value.
C7_UserListDispatches ==
    (op = "filterEntity" /\ filter.variant = "UserList") =>
        /\ result.status = "returned"
        /\ filter.value.v = owned =>
               result.value = Call(arg.args[2], subject).value
        /\ filter.value.v = starred =>
               result.value = Call(arg.args[3], subject).value
        /\ filter.value.v \notin {owned, starred} => result.value

\* an 'all' filter has matched an entity that both predicates reject
C7_Witness ==
    /\ Evaluated("UserList")
    /\ filter.value.v = all
    /\ ~Call(filter.isOwnedEntity, subject).value
    /\ ~Call(filter.isStarredEntity, subject).value
    /\ result.value

\* C8: Orphan filterEntity is true iff the entity has the orphan annotation and
\* its value is "true" for a filter configured true, "false" for one configured
\* false; an entity without the annotation is rejected by both.
C8_OrphanMatchesTheAnnotation ==
    (op = "filterEntity" /\ filter.variant = "Orphan") =>
        /\ result.status = "returned"
        /\ result.value =
               HasOrphanAnnotation(subject,
                   IF filter.value.v THEN <<"t", "r", "u", "e">>
                   ELSE <<"f", "a", "l", "s", "e">>)

\* a filter configured false has rejected an entity with annotations but no
\* orphan annotation
C8_Witness ==
    /\ Evaluated("Orphan")
    /\ ~filter.value.v
    /\ subject.v.metadata.v.annotations.t # "undefined"
    /\ ORPHAN_ANNOTATION \notin DOMAIN subject.v.metadata.v.annotations.v
    /\ ~result.value

\* C9: Error filterEntity is true iff whether the entity has a non-empty
\* status-items list equals the configured boolean, an absent status or items
\* list counting as no errors.
C9_ErrorMatchesTheStatusItems ==
    (op = "filterEntity" /\ filter.variant = "Error") =>
        /\ result.status = "returned"
        /\ result.value = (HasStatusItems(subject) = filter.value.v)

\* a filter configured false has matched an entity without status
C9_Witness ==
    /\ Evaluated("Error")
    /\ ~filter.value.v
    /\ subject.v.status.t = "undefined"
    /\ result.value

\* C10: the filter rebuilt from a filter's query value is of the same variant,
\* has the same query value and catalog filters and agrees with it on the entity;
\* an Owner filter's values are unchanged, and a Type filter built from one
\* string is rebuilt as the filter of the one-element sequence.
C10_RebuiltFilterIsEquivalent ==
    (filter.variant \in WithQueryValue /\ other # NoFilter) =>
        /\ other.variant = filter.variant
        /\ toQueryValue(other) = toQueryValue(filter)
        /\ filter.variant \in WithCatalogFilters =>
               getCatalogFilters(other) = getCatalogFilters(filter)
        /\ filter.variant \in WithFilterEntity =>
               filterEntity(other, subject) = filterEntity(filter, subject)
        /\ filter.variant = "Owner" => other.values = filter.values
        /\ (filter.variant = "Type" /\ arg.args[1].t = "string") =>
               other = EntityTypeFilter(Arr(<<arg.args[1].v>>)).value

\* an Owner filter built from a bare name in upper case has been rebuilt from
\* its query value and both have been evaluated
C10_Witness ==
    /\ Evaluated("Owner")
    /\ other # NoFilter
    /\ <<"T", "A">> \in Range(arg.args[1].v)
    /\ other.values.v # <<>>

====
